---------------------------- MODULE Spec2Model ----------------------------
(***************************************************************************)
(* Model of the diverge-mvp-backend narrative relay: the POST /generate    *)
(* handler of its three server variants                                    *)
(*   "json"    src/unnamed/part_001  sessions + structured JSON response   *)
(*   "guarded" src/unnamed/part_000  prose response, clamping, size guard  *)
(*   "plain"   src/server.js         prose response, no clamping, no guard *)
(*                                                                         *)
(* A JavaScript string is a sequence of segments.  A segment               *)
(* [t |-> tag, n |-> k, of |-> m] is the first k characters of the source  *)
(* text called tag, which is m characters long.  slice(0, max) cuts the    *)
(* last segment, concatenation is \o, and the length is the sum of the n.  *)
(* Source texts with different tags are taken to share no content.         *)
(***************************************************************************)
EXTENDS Naturals, Sequences, FiniteSets

VARIABLES
    variant,    \* which server file is running
    env,        \* [bible: bible.txt is readable, apiKey: OPENAI_API_KEY set]
    sessions,   \* the Map  session_id -> [recent_memory, stats]
    slot,       \* the requests in flight, one record per handler activation
    last,       \* the response sent most recently
    lastTurn,   \* history: per session, the text and block of its last 200
    ncalls      \* number of completion calls issued so far

vars == <<variant, env, sessions, slot, last, lastTurn, ncalls>>

(* The number of completion calls one run issues. *)
MaxCalls == 2

MAX_INPUT_CHARS == 12000

-----------------------------------------------------------------------------
(* Strings *)

Lit(s) == <<[t |-> s, n |-> Len(s), of |-> Len(s)]>>

Text(tag, len) == IF len = 0 THEN <<>> ELSE <<[t |-> tag, n |-> len, of |-> len]>>

RECURSIVE StrLen(_)
StrLen(s) == IF s = <<>> THEN 0 ELSE Head(s).n + StrLen(Tail(s))

(* s.slice(0, max) *)
RECURSIVE Slice(_, _)
Slice(s, max) ==
    IF s = <<>> \/ max = 0 THEN <<>>
    ELSE IF Head(s).n <= max
         THEN <<Head(s)>> \o Slice(Tail(s), max - Head(s).n)
         ELSE <<[Head(s) EXCEPT !.n = max]>>

(* s.includes(t), for texts that share no content unless they share a tag *)
Contains(s, t) ==
    \/ t = <<>>
    \/ \E i \in 1..Len(s) :
           /\ i + Len(t) - 1 <= Len(s)
           /\ SubSeq(s, i, i + Len(t) - 1) = t

EndsWith(s, t) ==
    /\ Len(t) <= Len(s)
    /\ SubSeq(s, Len(s) - Len(t) + 1, Len(s)) = t

-----------------------------------------------------------------------------
(* JavaScript values of a request body *)

Str(s) == [k |-> "str", s |-> s, n |-> 0]
Arr(n) == [k |-> "arr", s |-> <<>>, n |-> n]    \* n one-digit numbers, n >= 1
Null   == [k |-> "null", s |-> <<>>, n |-> 0]

(* !v *)
Falsy(v) == v.k = "null" \/ (v.k = "str" /\ v.s = <<>>)

(* String(v): an array joins its elements with commas *)
JsString(v) ==
    CASE v.k = "str"  -> v.s
      [] v.k = "arr"  -> Text("String(array)", 2 * v.n - 1)
      [] v.k = "null" -> Lit("null")

(* JSON.stringify(v).length *)
JsonLen(v) ==
    CASE v.k = "str"  -> StrLen(v.s) + 2
      [] v.k = "arr"  -> 2 * v.n + 1
      [] v.k = "null" -> 4

RECURSIVE MembersLen(_, _)
MembersLen(body, keys) ==
    IF keys = {} THEN 0
    ELSE LET key == CHOOSE x \in keys : TRUE
         IN  Len(key) + 3 + JsonLen(body[key])
               + (IF keys = {key} THEN 0 ELSE 1)
               + MembersLen(body, keys \ {key})

(* JSON.stringify(req.body).length *)
BodyJsonLen(body) == 2 + MembersLen(body, DOMAIN body)

-----------------------------------------------------------------------------
(* clampString and validateGenerateBody *)

clampString(s, max) ==
    IF Falsy(s) THEN <<>>
    ELSE IF s.k # "str" THEN JsString(s)
    ELSE IF StrLen(s.s) > max THEN Slice(s.s, max) ELSE s.s

required ==
    <<"scene_type", "event_id", "world_summary", "event_card",
      "recent_memory", "player_input">>

NoError == "null"

SceneTypes ==
    IF variant = "json" THEN {Str(Lit("choice_point")), Str(Lit("narration"))}
    ELSE {Str(Lit("scene_only")), Str(Lit("choice_point"))}

SceneTypeMessage ==
    IF variant = "json" THEN "scene_type must be 'choice_point' or 'narration'"
    ELSE "scene_type must be 'scene_only' or 'choice_point'"

(* mutant: the scene_type check is left out *)
validateGenerateBody_NoEnum(body) ==
    LET missing == {i \in 1..Len(required) : required[i] \notin DOMAIN body}
    IN  IF missing # {}
        THEN "Missing field: "
               \o required[CHOOSE i \in missing : \A j \in missing : i <= j]
        ELSE NoError

validateGenerateBody(body) ==
    LET missing == {i \in 1..Len(required) : required[i] \notin DOMAIN body}
    IN  IF missing # {}
        THEN "Missing field: "
               \o required[CHOOSE i \in missing : \A j \in missing : i <= j]
        ELSE IF body.scene_type \notin SceneTypes THEN SceneTypeMessage
        ELSE NoError


-----------------------------------------------------------------------------
(* Sessions *)

DefaultStats == [health |-> 10, reputation |-> 0, money |-> 0]

NewSession == [recent_memory |-> <<>>, stats |-> DefaultStats]

(* getSession(sessionId): the map after the call; the session is sess[sid] *)
getSession(sess, sessionId) ==
    [key \in DOMAIN sess \cup {sessionId} |->
        IF key \in DOMAIN sess THEN sess[key] ELSE NewSession]

(* const { ..., session_id = "demo" } = req.body *)
SessionIdOf(body) ==
    IF "session_id" \in DOMAIN body THEN body.session_id ELSE Str(Lit("demo"))

(* const serverRecentMemory = clampString(s.recent_memory || "", 4000) *)
serverRecentMemory(s) == clampString(Str(s.recent_memory), 4000)

-----------------------------------------------------------------------------
(* Payloads and prompts *)

EmptyPayload ==
    [session_id |-> <<>>, scene_type |-> <<>>, event_id |-> <<>>,
     world_summary |-> <<>>, event_card |-> <<>>, recent_memory |-> <<>>,
     player_input |-> <<>>]

(* part_001: the clamped fields; session_id is not among them *)
PayloadJson(body) ==
    [EmptyPayload EXCEPT
        !.scene_type    = clampString(body.scene_type, 80),
        !.event_id      = clampString(body.event_id, 200),
        !.world_summary = clampString(body.world_summary, 6000),
        !.event_card    = clampString(body.event_card, 5000),
        !.recent_memory = clampString(body.recent_memory, 2000),
        !.player_input  = clampString(body.player_input, 2000)]

(* part_000: scene_type is passed through, session_id || "demo" is clamped *)
PayloadGuarded(body) ==
    [EmptyPayload EXCEPT
        !.session_id    = clampString(
                              IF "session_id" \in DOMAIN body
                                  /\ ~Falsy(body.session_id)
                              THEN body.session_id ELSE Str(Lit("demo")), 80),
        !.scene_type    = JsString(body.scene_type),
        !.event_id      = clampString(body.event_id, 200),
        !.world_summary = clampString(body.world_summary, 6000),
        !.event_card    = clampString(body.event_card, 5000),
        !.recent_memory = clampString(body.recent_memory, 4000),
        !.player_input  = clampString(body.player_input, 2000)]

EmptyPrompt ==
    [system |-> <<>>, bible |-> <<>>, stats |-> <<>>, world_summary |-> <<>>,
     event_card |-> <<>>, memory |-> <<>>, player_input |-> <<>>,
     event_id |-> <<>>]

bible == Lit("bible.txt")

(* mutant: the client's memory is used while the server has none *)
PromptJson_TrustsClient(s, payload) ==
    [EmptyPrompt EXCEPT
        !.bible         = bible,
        !.stats         = <<s.stats.health, s.stats.reputation, s.stats.money>>,
        !.world_summary = payload.world_summary,
        !.event_card    = payload.event_card,
        !.memory        = IF serverRecentMemory(s) = <<>> THEN payload.recent_memory
                          ELSE serverRecentMemory(s),
        !.player_input  = payload.player_input]

(* part_001: the template of the user message, section by section *)
PromptJson(s, payload) ==
    [EmptyPrompt EXCEPT
        !.bible         = bible,
        !.stats         = <<s.stats.health, s.stats.reputation, s.stats.money>>,
        !.world_summary = payload.world_summary,
        !.event_card    = payload.event_card,
        !.memory        = IF serverRecentMemory(s) = <<>> THEN Lit("(none)")
                          ELSE serverRecentMemory(s),
        !.player_input  = payload.player_input]

(* part_000: buildSystemPrompt(scene_type) and buildUserPrompt(payload) *)
PromptGuarded(payload) ==
    [EmptyPrompt EXCEPT
        !.system        = payload.scene_type,
        !.world_summary = payload.world_summary,
        !.event_card    = payload.event_card,
        !.memory        = payload.recent_memory,
        !.player_input  = payload.player_input,
        !.event_id      = payload.event_id]

(* server.js: the body's values interpolated as they are *)
PromptPlain(body) ==
    [EmptyPrompt EXCEPT
        !.bible         = bible,
        !.world_summary = JsString(body.world_summary),
        !.event_card    = JsString(body.event_card),
        !.memory        = JsString(body.recent_memory),
        !.player_input  = JsString(body.player_input)]

-----------------------------------------------------------------------------
(* The model's output and its parsing *)

(* A raw completion is a sequence of tokens: free text without braces, a    *)
(* lone "{", a lone "}", or one well-formed JSON object.                     *)
NoObj == [text |-> <<>>, arr |-> FALSE, n |-> 0]

Junk      == [kind |-> "text",   obj |-> NoObj]
Open      == [kind |-> "open",   obj |-> NoObj]
Close     == [kind |-> "close",  obj |-> NoObj]
Object(o) == [kind |-> "object", obj |-> o]

(* JSON.parse(raw): the raw text is one JSON object and nothing else *)
JsonParse(raw) ==
    IF Len(raw) = 1 /\ raw[1].kind = "object"
    THEN [ok |-> TRUE, value |-> raw[1].obj]
    ELSE [ok |-> FALSE, value |-> NoObj]

tryParseModelJson(raw) ==
    IF JsonParse(raw).ok THEN JsonParse(raw)
    ELSE LET opens  == {i \in 1..Len(raw) : raw[i].kind \in {"open", "object"}}
             closes == {i \in 1..Len(raw) : raw[i].kind \in {"close", "object"}}
             start  == CHOOSE i \in opens : \A j \in opens : i <= j
             end    == CHOOSE i \in closes : \A j \in closes : j <= i
         IN  IF opens # {} /\ closes # {} /\ end >= start
             THEN JsonParse(SubSeq(raw, start, end))
             ELSE [ok |-> FALSE, value |-> NoObj]

(* parsed.choices, an array of n strings *)
ChoiceNames == <<"choice 1", "choice 2", "choice 3", "choice 4">>

Choices(o) == IF o.arr THEN [i \in 1..o.n |-> Text(ChoiceNames[i], 10)] ELSE <<>>

(* mutant: the length of the choices array is not checked *)
BadShape_AnyLength(parsed) == parsed.text = <<>> \/ ~parsed.arr

(* !parsed?.text || !Array.isArray(parsed.choices) || parsed.choices.length !== 3 *)
BadShape(parsed) == parsed.text = <<>> \/ ~parsed.arr \/ parsed.n # 3

(* parsed.choices.join(" | ") *)
RECURSIVE Join(_)
Join(items) ==
    IF items = <<>> THEN <<>>
    ELSE IF Len(items) = 1 THEN Head(items)
    ELSE Head(items) \o Lit(" | ") \o Join(Tail(items))

turnBlock(player_input, parsed) ==
    Lit("PLAYER: ") \o player_input \o Lit("\nRESULT: ") \o parsed.text
        \o Lit("\nCHOICES: ") \o Join(Choices(parsed))

(* s.recent_memory = (s.recent_memory ? s.recent_memory + "\n\n" : "") + turnBlock *)
Appended(memory, block) ==
    (IF memory # <<>> THEN memory \o Lit("\n\n") ELSE <<>>) \o block

(* s.recent_memory = clampString(s.recent_memory, 4000) *)
UpdatedMemory(memory, block) == clampString(Str(Appended(memory, block)), 4000)

-----------------------------------------------------------------------------
(* Inputs: request bodies and completion results *)

With(body, key, v) ==
    [x \in DOMAIN body \cup {key} |-> IF x = key THEN v ELSE body[x]]

Without(body, key) == [x \in DOMAIN body \ {key} |-> body[x]]

Base ==
    [scene_type    |-> Str(Lit("choice_point")),
     event_id      |-> Str(Text("event id", 6)),
     world_summary |-> Str(Text("world", 300)),
     event_card    |-> Str(Text("card", 200)),
     recent_memory |-> Str(Text("client memory", 50)),
     player_input  |-> Str(Text("input", 5))]

(* Base with world_summary sized so that the body serializes to len chars *)
Sized(len) ==
    With(Base, "world_summary",
         Str(Text("sized world", len - (BodyJsonLen(Base) - 300))))

Huge == With(Base, "world_summary", Str(Text("huge world", 13000)))

(* world_summary is longer than its limit in Sized(MAX_INPUT_CHARS); here  *)
(* the other free-text fields are longer than theirs, the body below the cap *)
LongFields ==
    With([Base EXCEPT !.event_id     = Str(Text("long event id", 300)),
                      !.event_card   = Str(Text("long card", 5100)),
                      !.player_input = Str(Text("long input", 2500))],
         "session_id", Str(Text("long session id", 100)))

(* values that are not strings *)
NonStrings ==
    [Base EXCEPT !.event_id      = Arr(150),
                 !.world_summary = Arr(3100),
                 !.event_card    = Null]

Accepted ==
    {Base, Sized(MAX_INPUT_CHARS), LongFields, NonStrings,
     With(Base, "scene_type", Str(Lit("narration"))),
     With(Base, "scene_type", Str(Lit("scene_only"))),
     With(Base, "recent_memory", Str(Text("long client memory", 4500)))}

Rejected ==
    {Sized(MAX_INPUT_CHARS + 1), Huge}
    \cup {Without(Base, required[i]) : i \in 1..Len(required)}
    \cup {Without(Without(Base, "event_card"), "event_id")}
    \cup {Without(Huge, "player_input"),
          With(Huge, "scene_type", Str(Lit("boss_fight")))}
    \cup {With(Base, "scene_type", v) : v \in {Str(Lit("boss_fight")), Null}}

Bodies == Accepted \cup Rejected

Good(text)  == [text |-> text, arr |-> TRUE, n |-> 3]

ShortText == Text("short result", 40)
LongText  == Text("long result", 2000)

Raws ==
    {<<Object(Good(ShortText))>>, <<Object(Good(LongText))>>,
     <<Object([Good(ShortText) EXCEPT !.n = 2])>>,
     <<Object([Good(ShortText) EXCEPT !.n = 4])>>,
     <<Object([Good(ShortText) EXCEPT !.text = <<>>])>>,
     <<Object([Good(ShortText) EXCEPT !.arr = FALSE])>>,
     <<Junk, Object(Good(ShortText)), Close>>,
     <<Junk, Object([Good(LongText) EXCEPT !.n = 2]), Junk>>,
     <<Object(Good(ShortText)), Junk, Object(Good(LongText))>>,
     <<Close, Junk, Open>>,
     <<>>}

NoResult == [kind |-> "none",  raw |-> <<>>]
Throw    == [kind |-> "throw", raw |-> <<>>]
Ok(raw)  == [kind |-> "ok",    raw |-> raw]

Results == {Throw} \cup {Ok(raw) : raw \in Raws}

Slots == {"a", "b"}

-----------------------------------------------------------------------------
(* The handler of POST /generate, up to its await and after it *)

TooLargeMessage == "Input too large. Reduce world_summary/event_card/recent_memory."

(* mutant: the guard compares with >= *)
TooLarge_AtCap(body) == BodyJsonLen(body) >= MAX_INPUT_CHARS

(* combinedLen > MAX_INPUT_CHARS *)
TooLarge(body) == BodyJsonLen(body) > MAX_INPUT_CHARS

(* What the synchronous part of the handler yields: a response (status > 0) *)
(* or a completion call in flight (status = 0).                              *)
Yield(status, error, sess, sid, payload, prompt, memory) ==
    [status |-> status, error |-> error, sessions |-> sess, session_id |-> sid,
     payload |-> payload, prompt |-> prompt, serverRecentMemory |-> memory,
     calls |-> IF status = 0 THEN 1 ELSE 0]

Reply(status, error, sess) ==
    Yield(status, error, sess, Null, EmptyPayload, EmptyPrompt, <<>>)

(* mutant: the session is looked up before the body is validated *)
EntryJson_SessionFirst(sess, body) ==
    LET err     == validateGenerateBody(body)
        sid     == SessionIdOf(body)
        sess1   == getSession(sess, sid)
        s       == sess1[sid]
        payload == PayloadJson(body)
    IN  IF err # NoError THEN Reply(400, err, sess1)
        ELSE IF TooLarge(body) THEN Reply(413, TooLargeMessage, sess1)
        ELSE IF ~env.bible
             THEN Yield(500, "server error", sess1, sid, EmptyPayload,
                        EmptyPrompt, serverRecentMemory(s))
        ELSE Yield(0, NoError, sess1, sid, payload, PromptJson(s, payload),
                   serverRecentMemory(s))

(* part_001, lines 78-160 *)
EntryJson(sess, body) ==
    LET err     == validateGenerateBody(body)
        sid     == SessionIdOf(body)
        sess1   == getSession(sess, sid)
        s       == sess1[sid]
        payload == PayloadJson(body)
    IN  IF err # NoError THEN Reply(400, err, sess)
        ELSE IF TooLarge(body) THEN Reply(413, TooLargeMessage, sess)
        ELSE IF ~env.bible
             THEN Yield(500, "server error", sess1, sid, EmptyPayload,
                        EmptyPrompt, serverRecentMemory(s))
        ELSE Yield(0, NoError, sess1, sid, payload, PromptJson(s, payload),
                   serverRecentMemory(s))

(* part_000, lines 85-119 *)
EntryGuarded(sess, body) ==
    LET err     == validateGenerateBody(body)
        payload == PayloadGuarded(body)
    IN  IF err # NoError THEN Reply(400, err, sess)
        ELSE IF TooLarge(body) THEN Reply(413, TooLargeMessage, sess)
        ELSE IF ~env.apiKey
             THEN Yield(500, "Missing OPENAI_API_KEY in .env", sess, Null,
                        payload, EmptyPrompt, <<>>)
        ELSE Yield(0, NoError, sess, Null, payload, PromptGuarded(payload), <<>>)

(* server.js, lines 85-142: readFileSync may throw, and the name openai is  *)
(* not declared in this file, so the call itself throws a ReferenceError.   *)
EntryPlain(sess, body) ==
    LET err == validateGenerateBody(body)
    IN  IF err # NoError THEN Reply(400, err, sess)
        ELSE IF ~env.bible THEN Reply(500, "server error", sess)
        ELSE Yield(500, "server error", sess, Null, EmptyPayload,
                   PromptPlain(body), <<>>)

(* What the handler yields once the completion call has settled with res *)
Outcome(status, error, sess, text, choices, block) ==
    [status |-> status, error |-> error, sessions |-> sess, text |-> text,
     choices |-> choices, block |-> block]

(* mutant: the update starts from the memory read before the await *)
CurrentMemory_Snapshot(sess, sl) == sl.serverRecentMemory

(* s.recent_memory as line 178 reads it: s is the session object that      *)
(* getSession returned before the await, and the Map never replaces it      *)
CurrentMemory(sess, sl) == sess[sl.session_id].recent_memory

(* part_001, lines 162-190; sl is the suspended activation *)
ExitJson(sess, sl, res) ==
    LET p      == tryParseModelJson(res.raw)
        parsed == p.value
        sid    == sl.session_id
        block  == turnBlock(sl.payload.player_input, parsed)
    IN  IF res.kind = "throw"
        THEN Outcome(500, "server error", sess, <<>>, <<>>, <<>>)
        ELSE IF ~p.ok
        THEN Outcome(500, "Model did not return valid JSON", sess, <<>>, <<>>, <<>>)
        ELSE IF BadShape(parsed)
        THEN Outcome(500, "Bad JSON shape from model", sess, <<>>, <<>>, <<>>)
        ELSE Outcome(200, NoError,
                     [sess EXCEPT ![sid].recent_memory =
                                      UpdatedMemory(CurrentMemory(sess, sl), block)],
                     parsed.text, Choices(parsed), block)

(* completion.choices?.[0]?.message?.content ?? "" as prose *)
RawText(raw) == [i \in 1..Len(raw) |-> [t |-> raw[i].kind, n |-> 1, of |-> 1]]

(* part_000, lines 121-128 *)
ExitGuarded(sess, sl, res) ==
    IF res.kind = "throw"
    THEN Outcome(500, "Server error", sess, <<>>, <<>>, <<>>)
    ELSE Outcome(200, NoError, sess, RawText(res.raw), <<>>, <<>>)

-----------------------------------------------------------------------------
(* State *)

(* What a response's record keeps of the request body it answers *)
Facts(body) ==
    [missing    |-> {i \in 1..Len(required) : required[i] \notin DOMAIN body},
     scene_type |-> IF "scene_type" \in DOMAIN body THEN body.scene_type ELSE Null,
     length     |-> IF BodyJsonLen(body) > MAX_INPUT_CHARS THEN "over the cap"
                    ELSE "within the cap"]

Idle ==
    [pc |-> "idle", body |-> Base, session_id |-> Null,
     payload |-> EmptyPayload, prompt |-> EmptyPrompt,
     serverRecentMemory |-> <<>>, calls |-> 0,
     hasPrev |-> FALSE, prevText |-> <<>>]

NoResponse ==
    [flip |-> FALSE, status |-> 0, error |-> NoError, req |-> Facts(Base),
     session_id |-> Null, snapshot |-> <<>>, choices |-> <<>>,
     result |-> NoResult, calls |-> 0]

Init ==
    /\ variant \in {"json", "guarded", "plain"}
    /\ env \in [bible : BOOLEAN, apiKey : BOOLEAN]
    /\ variant = "guarded" => env.bible
    /\ variant # "guarded" => env.apiKey
    /\ sessions = [sid \in {} |-> NewSession]
    /\ slot = [r \in Slots |-> Idle]
    /\ last = NoResponse
    /\ lastTurn = [sid \in {} |-> [text |-> <<>>, block |-> <<>>]]
    /\ ncalls = 0

Entry(sess, body) ==
    CASE variant = "json"    -> EntryJson(sess, body)
      [] variant = "guarded" -> EntryGuarded(sess, body)
      [] variant = "plain"   -> EntryPlain(sess, body)

(* A request arrives and its handler runs up to the await or to a response *)
Generate(r, body) ==
    LET e == Entry(sessions, body)
    IN  /\ slot[r].pc = "idle"
        /\ e.status = 0 => ncalls < MaxCalls
        /\ ncalls' = ncalls + e.calls
        /\ sessions' = e.sessions
        /\ IF e.status = 0
           THEN /\ slot' = [slot EXCEPT ![r] =
                       [pc |-> "await", body |-> body,
                        session_id |-> e.session_id, payload |-> e.payload,
                        prompt |-> e.prompt,
                        serverRecentMemory |-> e.serverRecentMemory,
                        calls |-> e.calls,
                        hasPrev |-> e.session_id \in DOMAIN lastTurn,
                        prevText |-> IF e.session_id \in DOMAIN lastTurn
                                     THEN lastTurn[e.session_id].text ELSE <<>>]]
                /\ UNCHANGED last
           ELSE /\ last' = [flip |-> ~last.flip, status |-> e.status, error |-> e.error,
                            req |-> Facts(body), session_id |-> e.session_id,
                            snapshot |-> e.serverRecentMemory,
                            choices |-> <<>>, result |-> NoResult,
                            calls |-> e.calls]
                /\ UNCHANGED slot
        /\ UNCHANGED <<variant, env, lastTurn>>

Exit(sess, sl, res) ==
    IF variant = "json" THEN ExitJson(sess, sl, res) ELSE ExitGuarded(sess, sl, res)

(* mutant: a call that throws is issued once more *)
Complete_Retries(r, res) ==
    LET sl == slot[r]
        x  == Exit(sessions, sl, res)
    IN  /\ sl.pc = "await"
        /\ IF res.kind = "throw" /\ sl.calls = 1
           THEN /\ slot' = [slot EXCEPT ![r].calls = 2]
                /\ ncalls' = ncalls + 1
                /\ UNCHANGED <<variant, env, sessions, last, lastTurn>>
           ELSE /\ sessions' = x.sessions
                /\ last' = [flip |-> ~last.flip, status |-> x.status,
                            error |-> x.error, req |-> Facts(sl.body),
                            session_id |-> sl.session_id,
                            snapshot |-> sl.serverRecentMemory,
                            choices |-> x.choices, result |-> res,
                            calls |-> sl.calls]
                /\ slot' = [slot EXCEPT ![r] = Idle]
                /\ lastTurn' =
                     IF x.status = 200 /\ variant = "json"
                     THEN [sid \in DOMAIN lastTurn \cup {sl.session_id} |->
                              IF sid = sl.session_id
                              THEN [text |-> x.text, block |-> x.block]
                              ELSE lastTurn[sid]]
                     ELSE lastTurn
                /\ UNCHANGED <<variant, env, ncalls>>

(* The completion call of a suspended handler settles with res (a completion *)
(* or an exception) and the handler runs from its await to its response      *)
Complete(r, res) ==
    LET sl == slot[r]
        x  == Exit(sessions, sl, res)
    IN  /\ sl.pc = "await"
        /\ sessions' = x.sessions
        /\ last' = [flip |-> ~last.flip, status |-> x.status, error |-> x.error,
                    req |-> Facts(sl.body), session_id |-> sl.session_id,
                    snapshot |-> sl.serverRecentMemory,
                    choices |-> x.choices, result |-> res,
                    calls |-> sl.calls]
        /\ slot' = [slot EXCEPT ![r] = Idle]
        /\ lastTurn' =
             IF x.status = 200 /\ variant = "json"
             THEN [sid \in DOMAIN lastTurn \cup {sl.session_id} |->
                      IF sid = sl.session_id
                      THEN [text |-> x.text, block |-> x.block]
                      ELSE lastTurn[sid]]
             ELSE lastTurn
        /\ UNCHANGED <<variant, env, ncalls>>

(* Requests handled one at a time, from the full set of inputs *)
Next ==
    \/ \E body \in Bodies : Generate("a", body)
    \/ \E res \in Results : Complete("a", res)

Spec == Init /\ [][Next]_vars

(* Requests handled concurrently: a handler may start while another is     *)
(* suspended at its await                                                   *)
ConcurrentBodies ==
    {Base, LongFields, Huge, Without(Base, "event_card"),
     With(Base, "scene_type", Str(Lit("boss_fight"))),
     With(Base, "recent_memory", Str(Text("long client memory", 4500)))}

ConcurrentResults ==
    {Throw, Ok(<<Object(Good(ShortText))>>), Ok(<<Object(Good(LongText))>>),
     Ok(<<Object([Good(ShortText) EXCEPT !.n = 2])>>), Ok(<<>>)}

NextConcurrent ==
    \/ \E r \in Slots, body \in ConcurrentBodies : Generate(r, body)
    \/ \E r \in Slots, res \in ConcurrentResults : Complete(r, res)

SpecConcurrent == Init /\ [][NextConcurrent]_vars

-----------------------------------------------------------------------------
(* Properties *)

Responds == last'.flip # last.flip

(* The body a response answers passed validateGenerateBody's two checks *)
Valid(req) == req.missing = {} /\ req.scene_type \in SceneTypes

Memory(sid) == sessions[sid].recent_memory

IsPrefix(s, t) == Len(s) <= Len(t) /\ SubSeq(t, 1, Len(s)) = s

(* C1: when a request on a session has succeeded with result text T, the   *)
(* memory section of the prompt of the next request handled on that        *)
(* session contains T.                                                     *)
C1_PromptHasPreviousResult ==
    \A r \in Slots :
        (slot[r].pc = "await" /\ slot[r].hasPrev)
            => Contains(slot[r].prompt.memory, slot[r].prevText)

(* C2: after every successful turn the stored memory is at most 4000       *)
(* characters long and ends with the block of the most recent turn: it is  *)
(* the oldest content that truncation drops.                               *)
C2_MemoryEndsWithLastTurn ==
    \A sid \in DOMAIN lastTurn :
        /\ StrLen(Memory(sid)) <= 4000
        /\ EndsWith(Memory(sid), lastTurn[sid].block)

(* The model's output parses and its choices are an array of a length      *)
(* other than three                                                        *)
WrongCount(res) ==
    /\ res.kind = "ok"
    /\ tryParseModelJson(res.raw).ok
    /\ tryParseModelJson(res.raw).value.arr
    /\ tryParseModelJson(res.raw).value.n # 3

(* C3: in the structured variant every 200 response carries exactly three  *)
(* choices, and a model output that parses with a choices array of another *)
(* length is answered 500 "Bad JSON shape from model" with the session     *)
(* memory left as it was when the request arrived.                         *)
C3_ThreeChoicesOrBadShape ==
    [][(Responds /\ variant = "json") =>
          /\ last'.status = 200 => Len(last'.choices) = 3
          /\ WrongCount(last'.result) =>
                /\ last'.status = 500
                /\ last'.error = "Bad JSON shape from model"
                /\ sessions' = sessions
                /\ sessions'[last'.session_id].recent_memory = last'.snapshot]_vars

C3_Witness ==
    /\ variant = "json"
    /\ last.status = 500
    /\ WrongCount(last.result)
    /\ tryParseModelJson(last.result.raw).value.n = 4
    /\ Memory(last.session_id) # <<>>

C5_ValidatorRejectsExactlyInvalid ==
    /\ last.status # 0 =>
          /\ last.status = 400 <=> ~Valid(last.req)
          /\ last.req.missing # {} =>
                \E i \in last.req.missing :
                    last.error = "Missing field: " \o required[i]
    /\ \A body \in Bodies :
          validateGenerateBody(body) = NoError
              <=> /\ \A i \in 1..Len(required) : required[i] \in DOMAIN body
                  /\ body.scene_type \in SceneTypes

C5_Witness ==
    /\ last.status = 400
    /\ last.req.missing = {2, 4}
    /\ last.error = "Missing field: event_id"

(* The value v the code uses for a field submitted as x: never longer than *)
(* the limit, and exactly the limit when x is a string longer than it      *)
Clamped(v, x, limit) ==
    /\ StrLen(v) <= limit
    /\ (x.k = "str" /\ StrLen(x.s) > limit) => StrLen(v) = limit

(* C6: for every accepted request and every submitted value, string or     *)
(* not, each free-text field placed in the prompt or stored is at most its *)
(* limit long (world_summary 6000, event_card 5000, player_input 2000,     *)
(* event_id 200, session_id 80), and exactly the limit when the submitted  *)
(* string is longer.                                                       *)
C6_FieldsClamped ==
    \A r \in Slots :
        slot[r].pc = "await" =>
            LET sl == slot[r]
            IN  /\ Clamped(sl.prompt.world_summary, sl.body.world_summary, 6000)
                /\ Clamped(sl.prompt.event_card, sl.body.event_card, 5000)
                /\ Clamped(sl.prompt.player_input, sl.body.player_input, 2000)
                /\ Clamped(sl.payload.event_id, sl.body.event_id, 200)
                /\ variant = "json" =>
                      \A sid \in DOMAIN sessions :
                          Clamped(JsString(sid), sid, 80)
                /\ variant = "guarded" => StrLen(sl.payload.session_id) <= 80

(* C7: a request answered 400 or 413 mutates nothing: the session map, the *)
(* requests in flight and the number of completion calls are as before.    *)
C7_RejectionMutatesNothing ==
    [][(Responds /\ last'.status \in {400, 413}) =>
          /\ sessions' = sessions
          /\ slot' = slot
          /\ lastTurn' = lastTurn
          /\ ncalls' = ncalls
          /\ last'.calls = 0]_vars

C7_Witness ==
    /\ last.status \in {400, 413}
    /\ \E r \in Slots : slot[r].pc = "await"
    /\ \E sid \in DOMAIN sessions : Memory(sid) # <<>>

(* C8: no request ever has a second completion call, and when the call     *)
(* throws the request ends at once with its one response, a 500, and the   *)
(* sessions are unchanged.                                                 *)
C8_ThrowIsTerminal ==
    [][/\ \A r \in Slots : slot'[r].calls <= 1
       /\ \A r \in Slots :
             (slot[r].pc = "await" /\ slot'[r] # slot[r]) =>
                 /\ Responds
                 /\ slot' = [slot EXCEPT ![r] = Idle]
       /\ (Responds /\ last'.result = Throw) =>
             /\ last'.status = 500
             /\ last'.calls = 1
             /\ ncalls' = ncalls
             /\ sessions' = sessions]_vars

C8_Witness ==
    /\ last.result = Throw
    /\ last.status = 500
    /\ last.session_id \in DOMAIN sessions
    /\ Memory(last.session_id) # <<>>

(* C9, as claimed, by its mechanism: a request that succeeds writes back   *)
(* the memory it read before its await plus its own block, so that the     *)
(* block of a request that completed in between is lost (memory below the  *)
(* cap).                                                                   *)
C9_WritesBackSnapshot ==
    (variant = "json" /\ last.status = 200
        /\ StrLen(Memory(last.session_id)) < 4000)
        => Memory(last.session_id)
              = UpdatedMemory(last.snapshot, lastTurn[last.session_id].block)

(* C9, amended: no update of recent_memory is lost.  A request that        *)
(* succeeds appends its block to the memory stored at that moment: when    *)
(* the result stays below the cap it keeps everything stored (also the     *)
(* block of a request that completed while this one was suspended) and     *)
(* ends with this request's block.                                         *)
C9_NoLostUpdate ==
    [][(Responds /\ variant = "json" /\ last'.status = 200) =>
          LET sid == last'.session_id
              old == sessions[sid].recent_memory
              new == sessions'[sid].recent_memory
          IN  StrLen(new) < 4000 =>
                  /\ IsPrefix(old, new)
                  /\ EndsWith(new, lastTurn'[sid].block)
                  /\ new # old]_vars

(* both requests were suspended together, both succeeded, and the memory   *)
(* is not what a write-back of the second one's snapshot would give        *)
C9_Witness ==
    /\ variant = "json"
    /\ last.status = 200
    /\ StrLen(Memory(last.session_id)) < 4000
    /\ last.snapshot = <<>>
    /\ Contains(Memory(last.session_id), ShortText)
    /\ Contains(Memory(last.session_id), LongText)

(* Two bodies that differ in the client's recent_memory and nothing else *)
SameButMemory(b1, b2) ==
    /\ DOMAIN b1 = DOMAIN b2
    /\ "recent_memory" \in DOMAIN b1
    /\ b1.recent_memory # b2.recent_memory
    /\ \A key \in DOMAIN b1 \ {"recent_memory"} : b1[key] = b2[key]

MemoryPairs == {pair \in Bodies \X Bodies : SameButMemory(pair[1], pair[2])}

Tags(s) == {s[i].t : i \in 1..Len(s)}

(* C10: in the sessions variant the server-side memory is authoritative.   *)
(* Two accepted requests handled from the same session state that differ   *)
(* only in the client's recent_memory send the same prompt and leave the   *)
(* same sessions whatever the model answers, and no part of the client's   *)
(* recent_memory is in a prompt sent.                                      *)
C10_ClientMemoryIgnored ==
    variant = "json" =>
        /\ \A pair \in MemoryPairs :
              LET e1 == Entry(sessions, pair[1])
                  e2 == Entry(sessions, pair[2])
              IN  (e1.status = 0 /\ e2.status = 0) =>
                      /\ e1.prompt = e2.prompt
                      /\ e1.sessions = e2.sessions
                      /\ \A res \in Results :
                            Exit(e1.sessions, e1, res).sessions
                                = Exit(e2.sessions, e2, res).sessions
        /\ \A r \in Slots :
              slot[r].pc = "await" =>
                  \A section \in {"bible", "world_summary", "event_card",
                                  "memory", "player_input"} :
                      Tags(slot[r].prompt[section])
                          \cap Tags(JsString(slot[r].body.recent_memory)) = {}

C10_Witness ==
    /\ variant = "json"
    /\ slot["a"].pc = "await"
    /\ slot["a"].body.recent_memory = Str(Text("long client memory", 4500))
    /\ slot["a"].serverRecentMemory # <<>>

=============================================================================
